---- MODULE Spec2Model ----
(***************************************************************************)
(* DartDetectLib scoring core as patched by the repository's patch         *)
(* scripts: the multiplier vote appended to the intersection result        *)
(* (patch_mult.py), the CBFC stage wired between hhs_select and            *)
(* whrs_select over the global candidate list (apply_edits.py), and the    *)
(* transform cache built in dd_init and read by triangulation              *)
(* (tps_patch.py).                                                         *)
(*                                                                         *)
(* Around the core: the flag dispatch (apply_edits.py), the score mapper    *)
(* (plot_warped_lines.py), the control points of the transform             *)
(* (tps_patch.py, phase8b_homography_audit.py), the games controller       *)
(* (fix_miss.py, fix_correct.py, controller_patch.py) and the weight       *)
(* tuning script (optimize_whrs.py).                                       *)
(*                                                                         *)
(* The specifications share the module, each leaving the others' state     *)
(* idle:                                                                   *)
(*   SpecVote  the vote block, applied to every bounded input;             *)
(*   Spec      two throws running the per-throw pipeline concurrently;     *)
(*   SpecInit  dd_init (and re-init) interleaved with a detection;         *)
(*   SpecFlag  dd_set_flag calls from every configuration;                 *)
(*   SpecSeg   the score mapper on every whole-degree board angle;         *)
(*   SpecCtl   the control-point build on bounded calibrations;            *)
(*   SpecGen   the candidate generator on every set of detections;         *)
(*   SpecGame  the controller's handlers in any order;                     *)
(*   SpecTune  the coordinate descent with every replay outcome.           *)
(***************************************************************************)
EXTENDS Integers, Sequences, FiniteSets, TLC

VARIABLES
    \* ---- vote block (patch_mult.py) ----
    cam_lines,        \* cam_id -> data.vote.multiplier, the cameras with a line
    best,             \* the winning candidate: score triple, coords, total_error
    method,           \* local `method`
    confidence,       \* local `confidence`
    result,           \* the IntersectionResult returned, NoResult before
    \* ---- per-throw pipeline (apply_edits.py) ----
    g_hhs_candidates, \* the process-wide candidate list
    pc,               \* board -> position of its throw in the pipeline
    throw_in,         \* board -> the throw's detections (ghost once read)
    cbfc_enabled,     \* is_cbfc_enabled()
    cbfc_mode,        \* get_cbfc_mode()
    bias_map,         \* the loaded bias map: set of keys that have an entry
    learn_log,        \* the observation log (sequence of observations)
    stage_view,       \* board -> what its CBFC stage and scorer were handed
    \* ---- initialisation (tps_patch.py) ----
    g_initialized,
    g_calibrations,   \* cam_id -> CameraCalibration (with tps_cache)
    init_pc,          \* position of the running dd_init
    init_calls,       \* number of dd_init calls started
    init_ret,         \* last dd_init return value
    last_json,        \* the document handed to the last dd_init
    tps_builds,       \* cam_id -> number of build_tps_transform runs
    det_pc,           \* position of the running detection
    det_seen,         \* cam_id -> what triangulation read for that camera
    \* ---- flag dispatch (apply_edits.py, dd_set_flag) ----
    hhs_enabled,      \* configuration of the module asked before CBFC
    whrs_cfg,         \* configuration of the WHRS module: enabled, wR
    flag_call,        \* the last dd_set_flag call: name, value, result
    flag_calls,       \* number of dd_set_flag calls made
    \* ---- score mapper (plot_warped_lines.py) ----
    seg_in,           \* the point to score: clockwise angle from board top
    seg_out,          \* seg_idx and segment found for it
    \* ---- control points (tps_patch.py, phase8b_homography_audit.py) ----
    ctl_in,           \* rings present, seg20_idx, samples that miss
    ctl_out,          \* the src and dst control-point lists built
    \* ---- candidate generator ----
    gen_in,           \* per-camera detections of one throw
    gen_out,          \* the candidate list generated from them
    \* ---- games controller (fix_miss.py, fix_correct.py, controller_patch.py) ----
    game,             \* the Game on the board
    sensor_paused,    \* whether the board's sensor has detection paused
    leg_popup,        \* whether the leg-won popup is waiting for its OK click
    since_leg,        \* history: what happened since the last leg start
    handled,          \* the last request handled: what it called and sent
    \* ---- weight tuning (optimize_whrs.py) ----
    tune              \* the coordinate-descent script's variables

voteVars == <<cam_lines, best, method, confidence, result>>
pipeVars == <<g_hhs_candidates, pc, throw_in, cbfc_enabled, cbfc_mode,
              bias_map, learn_log, stage_view>>
initVars == <<g_initialized, g_calibrations, init_pc, init_calls, init_ret,
              last_json, tps_builds, det_pc, det_seen>>
flagVars == <<hhs_enabled, whrs_cfg, flag_call, flag_calls>>
segVars  == <<seg_in, seg_out>>
ctlVars  == <<ctl_in, ctl_out>>
genVars  == <<gen_in, gen_out>>
gameVars == <<game, sensor_paused, leg_popup, since_leg, handled>>
tuneVars == <<tune>>
extVars  == <<flagVars, segVars, ctlVars, genVars, gameVars, tuneVars>>
vars == <<voteVars, pipeVars, initVars, extVars>>

\* The three fixed cameras.
Cams == {"cam0", "cam1", "cam2"}

(***************************************************************************)
(* Vote block                                                              *)
(***************************************************************************)

\* Bound: per-camera vote multipliers are drawn from 0..MaxVoteMult
\* (0 is a miss, values above 3 are out of the tallied range).
MaxVoteMult == 4

Segments == {0, 1, 20, 25}
Methods == {"Triangulation", "single_cam0"}
NoResult == [segment |-> -1]

\* if (result.segment == 25) score = (multiplier == 2) ? 50 : 25;
\* else score = segment * multiplier;
Recalc_BullAlways50(segment, multiplier) ==
    IF segment = 25 THEN 50 ELSE segment * multiplier

RecalcScore(segment, multiplier) ==
    IF segment = 25
    THEN (IF multiplier = 2 THEN 50 ELSE 25)
    ELSE segment * multiplier

\* Variant without the range check's effect: a vote outside 1..3 is tallied
\* as a single instead of being skipped.
MultVotes_ClampsIntoRange(lines) ==
    [m \in 0..3 |->
        Cardinality({c \in DOMAIN lines :
            (IF lines[c] >= 1 /\ lines[c] <= 3 THEN lines[c] ELSE 1) = m})]

\* int mult_votes[4] = {0}; for each camera: if (m >= 1 && m <= 3) mult_votes[m]++
MultVotes(lines) ==
    [m \in 0..3 |->
        Cardinality({c \in DOMAIN lines : lines[c] = m /\ m >= 1 /\ m <= 3})]

\* One iteration of: for (m = 1; m <= 3; m++) if (mult_votes[m] > max_votes) {...}
MajorityStep(acc, mv, m) ==
    IF mv[m] > acc.max_votes
    THEN [max_votes |-> mv[m], majority_mult |-> m]
    ELSE acc

\* int majority_mult = result.multiplier; int max_votes = 0; then the loop.
Majority(lines, winner_mult) ==
    LET mv == MultVotes(lines)
        a0 == [max_votes |-> 0, majority_mult |-> winner_mult]
        a1 == MajorityStep(a0, mv, 1)
        a2 == MajorityStep(a1, mv, 2)
    IN  MajorityStep(a2, mv, 3)

\* if (max_votes >= 2 && majority_mult != result.multiplier)
OverrideFires_Unanimous(lines, winner_mult) ==
    LET maj == Majority(lines, winner_mult)
    IN  maj.max_votes >= 3 /\ maj.majority_mult # winner_mult

OverrideFires(lines, winner_mult) ==
    LET maj == Majority(lines, winner_mult)
    IN  maj.max_votes >= 2 /\ maj.majority_mult # winner_mult

\* Variant that recomputes the score from the final multiplier on every path.
VoteResult_AlwaysRecalc(b, meth, conf, lines) ==
    LET maj == Majority(lines, b.multiplier)
        mult == IF OverrideFires(lines, b.multiplier)
                THEN maj.majority_mult ELSE b.multiplier
    IN  [segment     |-> b.segment,
         multiplier  |-> mult,
         score       |-> RecalcScore(b.segment, mult),
         method      |-> meth,
         confidence  |-> conf,
         coords      |-> b.coords,
         total_error |-> b.total_error,
         per_camera  |-> lines]

\* Variant whose override also rewrites the echo: only the votes that were
\* tallied are kept in per_camera.
VoteResult_EchoTallied(b, meth, conf, lines) ==
    LET maj == Majority(lines, b.multiplier)
        fires == OverrideFires(lines, b.multiplier)
        kept == {c \in DOMAIN lines : lines[c] >= 1 /\ lines[c] <= 3}
    IN  [segment     |-> b.segment,
         multiplier  |-> IF fires THEN maj.majority_mult ELSE b.multiplier,
         score       |-> IF fires THEN RecalcScore(b.segment, maj.majority_mult)
                                  ELSE b.score,
         method      |-> meth,
         confidence  |-> conf,
         coords      |-> b.coords,
         total_error |-> b.total_error,
         per_camera  |-> IF fires THEN [c \in kept |-> lines[c]] ELSE lines]

\* The populated IntersectionResult after the voting block.
VoteResult(b, meth, conf, lines) ==
    LET r0 == [segment     |-> b.segment,
               multiplier  |-> b.multiplier,
               score       |-> b.score,
               method      |-> meth,
               confidence  |-> conf,
               coords      |-> b.coords,
               total_error |-> b.total_error,
               per_camera  |-> lines]
        maj == Majority(lines, r0.multiplier)
    IN  IF OverrideFires(lines, r0.multiplier)
        THEN [r0 EXCEPT !.multiplier = maj.majority_mult,
                        !.score = RecalcScore(r0.segment, maj.majority_mult)]
        ELSE r0

CamLinesInputs ==
    UNION {[S -> 0..MaxVoteMult] : S \in SUBSET Cams}

BestInputs ==
    {[segment |-> s, multiplier |-> m, score |-> sc,
      coords |-> xy, total_error |-> e] :
        s \in Segments, m \in 0..3,
        sc \in {0, 7, 25, 50, 60},
        xy \in {<<0, 0>>, <<1, 2>>},
        e \in {0, 3}}

InitVoteVars ==
    /\ cam_lines \in CamLinesInputs
    /\ best \in BestInputs
    /\ method \in Methods
    /\ confidence \in {50, 90}
    /\ result = NoResult

IdleVoteVars ==
    /\ cam_lines = <<>>
    /\ best = [segment |-> 0, multiplier |-> 0, score |-> 0,
               coords |-> <<0, 0>>, total_error |-> 0]
    /\ method = "Triangulation"
    /\ confidence = 90
    /\ result = NoResult

\* The tail of the intersection routine: populate the result, vote, return.
ReturnResult ==
    /\ result = NoResult
    /\ result' = VoteResult(best, method, confidence, cam_lines)
    /\ UNCHANGED <<cam_lines, best, method, confidence>>
    /\ UNCHANGED <<pipeVars, initVars, extVars>>

(***************************************************************************)
(* Per-throw pipeline: hhs_select -> CBFC stage -> whrs_select, over the   *)
(* global g_hhs_candidates.                                                *)
(***************************************************************************)

Boards == {"b1", "b2"}

\* Bound: a tip's radius (in bias-bucket units) is drawn from 0..MaxRadius.
MaxRadius == 1

ThetaDegs == {0, 90}

\* A throw's detections: the usable cameras, where the tip lies, and whether the
\* single-camera projections fall away from the cameras' pairwise intersections.
\* (Disagreement needs a pairwise intersection, so at least two usable cameras;
\* a throw no camera saw has no tip.)
ThrowInputs ==
    {in \in [usable : SUBSET Cams, radius : 0..MaxRadius, theta_deg : ThetaDegs,
             disagree : BOOLEAN] :
        /\ in.disagree => Cardinality(in.usable) >= 2
        /\ in.usable = {} => in.radius = 0 /\ in.theta_deg = 0}

NoInput == [usable |-> {}, radius |-> 0, theta_deg |-> 0, disagree |-> FALSE]

\* HhsCandidateExport: type, coords, radius, theta_deg, radial_delta_from_tri.
\* The type string is kept as its two parts, type.substr(0, 7) and
\* type.substr(7). owner and corrected are history fields: the board whose
\* hhs_select produced the candidate, and whether cbfc_correct_candidates has
\* been over it.
Cand(tag, rest, r, th, delta, b) ==
    [type |-> <<tag, rest>>, coords |-> <<r, th>>, radius |-> r,
     theta_deg |-> th, radial_delta_from_tri |-> delta,
     owner |-> b, corrected |-> FALSE]

CamSeq == <<"cam0", "cam1", "cam2">>
PairSeq == <<<<"cam0", "cam1">>, <<"cam0", "cam2">>, <<"cam1", "cam2">>>>
PairName(p) ==
    IF p = <<"cam0", "cam1">> THEN "cam0_cam1"
    ELSE IF p = <<"cam0", "cam2">> THEN "cam0_cam2" ELSE "cam1_cam2"

RECURSIVE SelectSeq2(_, _, _)
\* The subsequence of s whose elements are in the set keep, mapped through f.
SelectSeq2(s, keep, f) ==
    IF s = <<>> THEN <<>>
    ELSE IF Head(s) \in keep
         THEN <<f[Head(s)]>> \o SelectSeq2(Tail(s), keep, f)
         ELSE SelectSeq2(Tail(s), keep, f)

\* Single-camera fallbacks only when no pairwise intersection exists.
HhsSelect_FallbackOnly(in, b) ==
    LET pairs == {p \in {PairSeq[i] : i \in 1..3} :
                     p[1] \in in.usable /\ p[2] \in in.usable}
        pairCand == [p \in pairs |->
                        Cand("pair_", PairName(p), in.radius, in.theta_deg, 0, b)]
        singleCand == [c \in in.usable |->
                        Cand("single_", c, in.radius, in.theta_deg, 0, b)]
    IN  IF pairs # {} THEN SelectSeq2(PairSeq, pairs, pairCand)
        ELSE SelectSeq2(CamSeq, in.usable, singleCand)

\* hhs_select: every pairwise intersection of usable cameras, then every usable
\* camera's single-camera fallback ("single_<camera>").
HhsSelect(in, b) ==
    LET pairs == {p \in {PairSeq[i] : i \in 1..3} :
                     p[1] \in in.usable /\ p[2] \in in.usable}
        multi == pairs # {}
        pairCand == [p \in pairs |->
                        Cand("pair_", PairName(p), in.radius, in.theta_deg, 0, b)]
        off == IF in.disagree THEN 1 ELSE 0
        singleCand == [c \in in.usable |->
                        Cand("single_", c, in.radius + off, in.theta_deg,
                             IF multi THEN off ELSE 0, b)]
    IN  SelectSeq2(PairSeq, pairs, pairCand)
            \o SelectSeq2(CamSeq, in.usable, singleCand)

\* cand.type.substr(0, 7) == "single_"
IsSingle_Always(cand) == TRUE

IsSingle(cand) == cand.type[1] = "single_"

\* cbfc_log_single_cam_projection(cand.type.substr(7), cand.radius,
\*     cand.theta_deg, cand.coords.x, cand.coords.y)
Observation(cand) ==
    [camera |-> cand.type[2], radius |-> cand.radius,
     theta_deg |-> cand.theta_deg, x |-> cand.coords[1], y |-> cand.coords[2]]

RECURSIVE LearnLoop(_)
\* for (const auto& cand : g_hhs_candidates) if (single) log(cand)
LearnLoop(cands) ==
    IF cands = <<>> THEN <<>>
    ELSE IF IsSingle(Head(cands))
         THEN <<Observation(Head(cands))>> \o LearnLoop(Tail(cands))
         ELSE LearnLoop(Tail(cands))

\* The bias map's key of a candidate: (camera, radius bucket, angle bucket).
BiasKey(cand) == <<cand.type[2], cand.radius, cand.theta_deg>>

\* The persisted correction vector of every learned bucket.
BiasDelta == <<1, 0>>

\* cbfc_correct_candidates on one candidate: a single-camera candidate whose
\* bucket has an entry is moved by the entry's vector, any other is left alone.
CorrectOne_MissShifts(cand, map) ==
    IF cand.type[1] = "single_"
    THEN [cand EXCEPT !.coords = <<cand.coords[1] + BiasDelta[1],
                                   cand.coords[2] + BiasDelta[2]>>,
                      !.corrected = TRUE]
    ELSE cand

CorrectOne(cand, map) ==
    IF cand.type[1] = "single_"
    THEN IF BiasKey(cand) \in map
         THEN [cand EXCEPT !.coords = <<cand.coords[1] + BiasDelta[1],
                                        cand.coords[2] + BiasDelta[2]>>,
                           !.corrected = TRUE]
         ELSE [cand EXCEPT !.corrected = TRUE]
    ELSE cand

\* cbfc_correct_candidates(std::vector<HhsCandidateExport>& candidates)
CbfcCorrectCandidates(cands, map) ==
    [i \in 1..Len(cands) |-> CorrectOne(cands[i], map)]

BiasMaps ==
    {{}, {<<"cam0", 0, 0>>, <<"cam1", 1, 90>>, <<"cam2", 1, 0>>}}

NoView == [cbfc_ran |-> "pending", foreign |-> FALSE, scored_raw |-> FALSE]

InitPipeVars ==
    /\ g_hhs_candidates = <<>>
    /\ pc = [b \in Boards |-> "idle"]
    /\ throw_in = [b \in Boards |-> NoInput]
    /\ cbfc_enabled \in BOOLEAN
    /\ cbfc_mode \in 0..2
    /\ bias_map \in BiasMaps
    /\ learn_log = <<>>
    /\ stage_view = [b \in Boards |-> NoView]

IdlePipeVars ==
    /\ g_hhs_candidates = <<>>
    /\ pc = [b \in Boards |-> "idle"]
    /\ throw_in = [b \in Boards |-> NoInput]
    /\ cbfc_enabled = FALSE
    /\ cbfc_mode = 0
    /\ bias_map = {}
    /\ learn_log = <<>>
    /\ stage_view = [b \in Boards |-> NoView]

Foreign(cands, b) == \E i \in 1..Len(cands) : cands[i].owner # b

\* A throw arrives on board b and hhs_select fills the global list from it.
HhsStage(b) ==
    /\ pc[b] = "idle"
    /\ \E in \in ThrowInputs :
        /\ throw_in' = [throw_in EXCEPT ![b] = in]
        /\ g_hhs_candidates' = HhsSelect(in, b)
    /\ pc' = [pc EXCEPT ![b] = "cbfc"]
    /\ UNCHANGED <<cbfc_enabled, cbfc_mode, bias_map, learn_log, stage_view>>
    /\ UNCHANGED <<voteVars, initVars, extVars>>

\* The mode acted on without asking is_cbfc_enabled().
StageMode_IgnoresEnabled(enabled, mode) ==
    IF mode = 1 THEN "learn" ELSE IF mode = 2 THEN "apply" ELSE "off"

\* The mode the stage runs in: 1 logs, 2 corrects, anything else does nothing.
StageMode(enabled, mode) ==
    IF ~enabled THEN "off"
    ELSE IF mode = 1 THEN "learn"
    ELSE IF mode = 2 THEN "apply" ELSE "off"

\* if (is_cbfc_enabled()) { if (mode == 1) learn loop; else if (mode == 2)
\* cbfc_correct_candidates(g_hhs_candidates); }
CbfcStage(b) ==
    /\ pc[b] = "cbfc"
    /\ LET m == StageMode(cbfc_enabled, cbfc_mode) IN
        /\ learn_log' = IF m = "learn"
                        THEN learn_log \o LearnLoop(g_hhs_candidates)
                        ELSE learn_log
        /\ g_hhs_candidates' = IF m = "apply"
                               THEN CbfcCorrectCandidates(g_hhs_candidates, bias_map)
                               ELSE g_hhs_candidates
        /\ stage_view' = [stage_view EXCEPT
                ![b].cbfc_ran = m,
                ![b].foreign = @ \/ (m # "off" /\ Foreign(g_hhs_candidates, b))]
    /\ pc' = [pc EXCEPT ![b] = "whrs"]
    /\ UNCHANGED <<throw_in, cbfc_enabled, cbfc_mode, bias_map>>
    /\ UNCHANGED <<voteVars, initVars, extVars>>

\* The tuning and replay runs score with WHRS switched on (UseWHRS = 1).
is_whrs_enabled == TRUE

\* if (is_whrs_enabled()) whrs_select(...): the scorer goes over the candidates
\* of g_hhs_candidates.
WhrsStage(b) ==
    /\ pc[b] = "whrs"
    /\ stage_view' = IF is_whrs_enabled
                     THEN [stage_view EXCEPT
                            ![b].foreign = @ \/ Foreign(g_hhs_candidates, b),
                            ![b].scored_raw =
                                \E i \in 1..Len(g_hhs_candidates) :
                                    /\ IsSingle(g_hhs_candidates[i])
                                    /\ ~g_hhs_candidates[i].corrected]
                     ELSE stage_view
    /\ pc' = [pc EXCEPT ![b] = "done"]
    /\ UNCHANGED <<g_hhs_candidates, throw_in, cbfc_enabled, cbfc_mode,
                   bias_map, learn_log>>
    /\ UNCHANGED <<voteVars, initVars, extVars>>

(***************************************************************************)
(* Initialisation: dd_init parses the calibrations into g_calibrations,    *)
(* builds every camera's tps_cache, then sets g_initialized; triangulation *)
(* reads the cache.                                                        *)
(***************************************************************************)

\* Bound: dd_init is called at most MaxInits times.
MaxInits == 2

\* Bound: at most MaxBadCams cameras of a calibration document are malformed.
MaxBadCams == 1

RingNames == {"outer_double_ellipse", "inner_double_ellipse",
              "outer_triple_ellipse", "inner_triple_ellipse",
              "bull_ellipse", "bullseye_ellipse"}

\* What a document holds for one camera: complete data, data without the angle
\* table, or data with one ring missing.
CamData == {"ok", "no_angles", "no_ring"}

InvalidJson == [c \in Cams |-> "unparsable"]

JsonInputs ==
    {InvalidJson} \cup
    {j \in [Cams -> CamData] :
        Cardinality({c \in Cams : j[c] # "ok"}) <= MaxBadCams}

NoTps == [valid |-> FALSE, gen |-> 0]

\* The calibration of one camera as read from its document entry: the angle
\* table, the rings present (each ellipse is optional), a default tps_cache.
\* gen is a history field: the dd_init call that parsed it.
ParsedCal(kind, g) ==
    [n_angles  |-> IF kind = "no_angles" THEN 0 ELSE 20,
     rings     |-> IF kind = "no_ring"
                   THEN RingNames \ {"outer_triple_ellipse"} ELSE RingNames,
     gen       |-> g,
     tps_cache |-> NoTps]

\* parse_calibrations(json, g_calibrations): false on an unparsable document,
\* otherwise every camera of the document is stored.
ParseOk(json) == json # InvalidJson

ParseCalibrations(json, g) == [c \in Cams |-> ParsedCal(json[c], g)]

\* build_tps_transform: no transform without the full 20-angle table; a ring
\* whose ellipse is absent is skipped (if (!ring.ellipse->has_value()) continue)
\* and the transform is built from the rings that are there.
BuildTpsTransform(cal) ==
    [valid  |-> cal.n_angles >= 20,
     gen    |-> cal.gen]

\* triangulation: const TpsTransform& tps = cal_it->second.tps_cache;
\* built counts the build_tps_transform runs the read costs.
ReadTransform_Rebuild(cal) ==
    [tps |-> BuildTpsTransform(cal), built |-> 1]

ReadTransform(cal) ==
    [tps |-> cal.tps_cache, built |-> 0]

InitIdle == [at |-> "idle", todo |-> <<>>]
NotRead == [read |-> FALSE, cal_gen |-> 0, tps_gen |-> 0, used |-> FALSE]

InitInitVars ==
    /\ g_initialized = FALSE
    /\ g_calibrations = <<>>
    /\ init_pc = InitIdle
    /\ init_calls = 0
    /\ init_ret = 0
    /\ last_json = InvalidJson
    /\ tps_builds = [c \in Cams |-> 0]
    /\ det_pc = <<>>
    /\ det_seen = [c \in Cams |-> NotRead]

\* dd_init up to the parse: return -1 when parse_calibrations fails.
DdInitParse ==
    /\ init_pc.at = "idle"
    /\ init_calls < MaxInits
    /\ \E json \in JsonInputs :
        /\ last_json' = json
        /\ IF ~ParseOk(json)
           THEN /\ init_ret' = -1
                /\ UNCHANGED <<g_calibrations, init_pc>>
           ELSE /\ g_calibrations' = ParseCalibrations(json, init_calls + 1)
                /\ init_pc' = [at |-> "build", todo |-> CamSeq]
                /\ UNCHANGED init_ret
    /\ init_calls' = init_calls + 1
    /\ UNCHANGED <<g_initialized, tps_builds, det_pc, det_seen>>
    /\ UNCHANGED <<voteVars, pipeVars, extVars>>

\* for (auto& [cam_id, cal] : g_calibrations) cal.tps_cache = build_tps_transform(cal);
DdInitBuild ==
    /\ init_pc.at = "build"
    /\ init_pc.todo # <<>>
    /\ LET c == Head(init_pc.todo) IN
        /\ g_calibrations' = [g_calibrations EXCEPT
                ![c].tps_cache = BuildTpsTransform(g_calibrations[c])]
        /\ tps_builds' = [tps_builds EXCEPT ![c] = @ + 1]
    /\ init_pc' = [init_pc EXCEPT !.todo = Tail(@)]
    /\ UNCHANGED <<g_initialized, init_calls, init_ret, last_json, det_pc, det_seen>>
    /\ UNCHANGED <<voteVars, pipeVars, extVars>>

\* g_initialized = true; return 0;
DdInitDone ==
    /\ init_pc.at = "build"
    /\ init_pc.todo = <<>>
    /\ g_initialized' = TRUE
    /\ init_ret' = 0
    /\ init_pc' = InitIdle
    /\ UNCHANGED <<g_calibrations, init_calls, last_json, tps_builds, det_pc, det_seen>>
    /\ UNCHANGED <<voteVars, pipeVars, extVars>>

\* A detection enters triangulation, which goes over the cameras in turn.
DetectStart ==
    /\ g_initialized
    /\ det_pc = <<>>
    /\ det_pc' = CamSeq
    /\ det_seen' = [c \in Cams |-> NotRead]
    /\ UNCHANGED <<g_initialized, g_calibrations, init_pc, init_calls, init_ret,
                   last_json, tps_builds>>
    /\ UNCHANGED <<voteVars, pipeVars, extVars>>

\* Triangulation of one camera: read its transform, skip it if (!tps.valid).
TriangulateCam ==
    /\ det_pc # <<>>
    /\ LET c == Head(det_pc)
           rd == ReadTransform(g_calibrations[c]) IN
        /\ det_seen' = [det_seen EXCEPT
                ![c] = [read |-> TRUE, cal_gen |-> g_calibrations[c].gen,
                        tps_gen |-> rd.tps.gen, used |-> rd.tps.valid]]
        /\ tps_builds' = [tps_builds EXCEPT ![c] = @ + rd.built]
    /\ det_pc' = Tail(det_pc)
    /\ UNCHANGED <<g_initialized, g_calibrations, init_pc, init_calls, init_ret,
                   last_json>>
    /\ UNCHANGED <<voteVars, pipeVars, extVars>>

(***************************************************************************)
(* Runtime flags: dd_set_flag offers the name to one module after another  *)
(***************************************************************************)

MaxFlagValue == 2
MaxFlagCalls == 2

EarlierFlagNames == {"UseHHS"}
CbfcFlagNames == {"UseCBFC", "CBFC_Mode"}
WhrsFlagNames == {"UseWHRS", "WHRS_wR"}
FlagNames == EarlierFlagNames \cup CbfcFlagNames \cup WhrsFlagNames \cup {"NoSuchFlag"}

\* The configuration the setters work on, gathered from the modules' variables.
FlagConfig ==
    [hhs |-> hhs_enabled, cbfc_enabled |-> cbfc_enabled, cbfc_mode |-> cbfc_mode,
     whrs |-> whrs_cfg]

\* A module's setter: 0 and the new configuration when it knows the name,
\* -1 and the configuration untouched when it does not.
set_hhs_flag(cfg, name, value) ==
    IF name = "UseHHS" THEN [r |-> 0, cfg |-> [cfg EXCEPT !.hhs = (value # 0)]]
    ELSE [r |-> -1, cfg |-> cfg]

set_cbfc_flag(cfg, name, value) ==
    IF name = "UseCBFC"
    THEN [r |-> 0, cfg |-> [cfg EXCEPT !.cbfc_enabled = (value # 0)]]
    ELSE IF name = "CBFC_Mode"
    THEN [r |-> 0, cfg |-> [cfg EXCEPT !.cbfc_mode = value]]
    ELSE [r |-> -1, cfg |-> cfg]

set_whrs_flag(cfg, name, value) ==
    IF name = "UseWHRS"
    THEN [r |-> 0, cfg |-> [cfg EXCEPT !.whrs.enabled = (value # 0)]]
    ELSE IF name = "WHRS_wR"
    THEN [r |-> 0, cfg |-> [cfg EXCEPT !.whrs.wR = value]]
    ELSE [r |-> -1, cfg |-> cfg]

\* The tail of dd_set_flag with the failure of the last module swallowed.
CbfcThenWhrs_AlwaysZero(cfg, name, value) ==
    LET c == set_cbfc_flag(cfg, name, value) IN
    IF c.r = 0 THEN [r |-> 0, cfg |-> c.cfg, asked |-> <<"cbfc">>]
    ELSE [r |-> 0, cfg |-> set_whrs_flag(c.cfg, name, value).cfg,
          asked |-> <<"cbfc", "whrs">>]

\* The name handed on to WHRS even after CBFC took it.
CbfcThenWhrs_OffersBoth(cfg, name, value) ==
    LET c == set_cbfc_flag(cfg, name, value)
        w == set_whrs_flag(c.cfg, name, value) IN
    [r |-> IF c.r = 0 THEN 0 ELSE w.r, cfg |-> w.cfg, asked |-> <<"cbfc", "whrs">>]

\* r = set_cbfc_flag(...); if (r == 0) return 0; return set_whrs_flag(...);
\* asked lists the setters the name was offered to, in order.
CbfcThenWhrs(cfg, name, value) ==
    LET c == set_cbfc_flag(cfg, name, value) IN
    IF c.r = 0 THEN [r |-> 0, cfg |-> c.cfg, asked |-> <<"cbfc">>]
    ELSE LET w == set_whrs_flag(c.cfg, name, value) IN
         [r |-> w.r, cfg |-> w.cfg, asked |-> <<"cbfc", "whrs">>]

dd_set_flag(cfg, name, value) ==
    LET h == set_hhs_flag(cfg, name, value) IN
    IF h.r = 0 THEN [r |-> 0, cfg |-> h.cfg, asked |-> <<"hhs">>]
    ELSE LET t == CbfcThenWhrs(h.cfg, name, value) IN
         [r |-> t.r, cfg |-> t.cfg, asked |-> <<"hhs">> \o t.asked]

NoFlagCall == [name |-> "", value |-> 0, r |-> 0, asked |-> <<>>]

InitFlagVars ==
    /\ hhs_enabled \in BOOLEAN
    /\ whrs_cfg \in [enabled : BOOLEAN, wR : 0..MaxFlagValue]
    /\ flag_call = NoFlagCall
    /\ flag_calls = 0

IdleFlagVars ==
    /\ hhs_enabled = TRUE
    /\ whrs_cfg = [enabled |-> TRUE, wR |-> 0]
    /\ flag_call = NoFlagCall
    /\ flag_calls = 0

DdSetFlag(name, value) ==
    /\ flag_calls < MaxFlagCalls
    /\ LET out == dd_set_flag(FlagConfig, name, value) IN
        /\ hhs_enabled' = out.cfg.hhs
        /\ cbfc_enabled' = out.cfg.cbfc_enabled
        /\ cbfc_mode' = out.cfg.cbfc_mode
        /\ whrs_cfg' = out.cfg.whrs
        /\ flag_call' = [name |-> name, value |-> value, r |-> out.r,
                         asked |-> out.asked]
    /\ flag_calls' = flag_calls + 1
    /\ UNCHANGED <<g_hhs_candidates, pc, throw_in, bias_map, learn_log, stage_view>>
    /\ UNCHANGED <<voteVars, initVars, segVars, ctlVars, genVars, gameVars, tuneVars>>

(***************************************************************************)
(* Score mapper: segment of a board-space point (plot_warped_lines.py)     *)
(***************************************************************************)

SEGMENT_ORDER == <<20,1,18,4,13,6,10,15,2,17,3,19,7,16,8,11,14,9,12,5>>

\* Board-space points are given by their clockwise angle from the board top
\* in whole degrees: the point is (sin t, cos t) times its distance, as
\* draw_board places the labels.
BoardAngles == 0..359

\* np.degrees(np.arctan2(coords[1], -coords[0])) for the point at clockwise
\* angle t: (-sin t, cos t) is the direction t + 90 counter-clockwise from the
\* x axis, which arctan2 reports in (-180, 180].
angle_deg(t) == IF t + 90 > 180 THEN t + 90 - 360 ELSE t + 90

\* The half-segment offset left out: boundaries fall on the segment centres.
adjusted_NoHalfSegment(a) ==
    LET a0 == IF a < 0 THEN a + 360 ELSE a IN (a0 - 90 + 360) % 360

\* if angle_deg < 0: angle_deg += 360; adjusted = (angle_deg - 90 + 9 + 360) % 360
adjusted(a) ==
    LET a0 == IF a < 0 THEN a + 360 ELSE a IN (a0 - 90 + 9 + 360) % 360

\* seg_idx = int(adjusted / 18) % 20
seg_idx(t) == (adjusted(angle_deg(t)) \div 18) % 20

\* seg = SEGMENT_ORDER[seg_idx]
ScorePoint(t) == [seg_idx |-> seg_idx(t), seg |-> SEGMENT_ORDER[seg_idx(t) + 1]]

NoSeg == [seg_idx |-> -1, seg |-> 0]

InitSegVars ==
    /\ seg_in \in BoardAngles
    /\ seg_out = NoSeg

IdleSegVars ==
    /\ seg_in = 0
    /\ seg_out = NoSeg

ScoreThePoint ==
    /\ seg_out = NoSeg
    /\ seg_out' = ScorePoint(seg_in)
    /\ UNCHANGED seg_in
    /\ UNCHANGED <<voteVars, pipeVars, initVars, flagVars, ctlVars, genVars,
                   gameVars, tuneVars>>

(***************************************************************************)
(* Control points of the pixel -> board mapping (build_tps_transform,      *)
(* mirrored by build_control_points)                                       *)
(***************************************************************************)

MaxMissed == 2

\* ring_configs, with the normalised radius in units of 1/17000 of the board.
ring_configs ==
    << [name |-> "outer_double_ellipse", norm_r |-> 17000],
       [name |-> "inner_double_ellipse", norm_r |-> 16200],
       [name |-> "outer_triple_ellipse", norm_r |-> 10700],
       [name |-> "inner_triple_ellipse", norm_r |-> 9900],
       [name |-> "bull_ellipse",         norm_r |-> 1600],
       [name |-> "bullseye_ellipse",     norm_r |-> 635] >>

mid_rings ==
    << [inner |-> "bull_ellipse", outer |-> "inner_triple_ellipse", norm_r |-> 5750],
       [inner |-> "outer_triple_ellipse", outer |-> "inner_double_ellipse",
        norm_r |-> 13450] >>

\* The remainder of C++'s %, which takes the sign of the dividend.
CRem(a, n) == IF a >= 0 THEN a % n ELSE -((-a) % n)

\* The remainder used as it comes, negative below the segment-20 boundary.
board_idx_NoWrap(idx, seg20_idx) == CRem(idx - seg20_idx, 20)

\* board_idx = ((idx - seg20_idx) % 20 + 20) % 20
board_idx(idx, seg20_idx) == (CRem(idx - seg20_idx, 20) + 20) % 20

\* Clockwise board angle of a sample: a boundary lies 9 degrees before the
\* centre of its segment, a midpoint on the centre.
angle_cw_deg(kind, bidx) == IF kind = "boundary" THEN bidx * 18 - 9 ELSE bidx * 18

SrcPt(a, b, kind, idx) == [a |-> a, b |-> b, kind |-> kind, idx |-> idx]
CenterSrc == SrcPt("center", "", "", 0)

\* sample_ellipse_at_angle finds no point for the samples listed in in.missed.
Sampled(ring, kind, idx, in) == <<ring, kind, idx>> \notin in.missed

\* The source point pushed before the sample is tested.
RingSample_SrcBeforeCheck(ring, kind, idx, in, acc) ==
    IF ~Sampled(ring.name, kind, idx, in)
    THEN [acc EXCEPT !.src = Append(@, SrcPt(ring.name, "", kind, idx))]
    ELSE [src |-> Append(acc.src, SrcPt(ring.name, "", kind, idx)),
          dst |-> Append(acc.dst,
                    <<ring.norm_r, angle_cw_deg(kind, board_idx(idx, in.seg20_idx))>>)]

\* if (!px_pt) continue; src.push_back(...); dst.push_back(...)
RingSample(ring, kind, idx, in, acc) ==
    IF ~Sampled(ring.name, kind, idx, in) THEN acc
    ELSE [src |-> Append(acc.src, SrcPt(ring.name, "", kind, idx)),
          dst |-> Append(acc.dst,
                    <<ring.norm_r, angle_cw_deg(kind, board_idx(idx, in.seg20_idx))>>)]

\* if (!pt_in || !pt_out) continue; src.push_back(middle); dst.push_back(...)
MidSample(mr, kind, idx, in, acc) ==
    IF ~Sampled(mr.inner, kind, idx, in) \/ ~Sampled(mr.outer, kind, idx, in) THEN acc
    ELSE [src |-> Append(acc.src, SrcPt(mr.inner, mr.outer, kind, idx)),
          dst |-> Append(acc.dst,
                    <<mr.norm_r, angle_cw_deg(kind, board_idx(idx, in.seg20_idx))>>)]

NoPoints == [src |-> <<>>, dst |-> <<>>]
Cat(acc, more) == [src |-> acc.src \o more.src, dst |-> acc.dst \o more.dst]

\* for (int idx = 0; idx < 20; ++idx) over one ring
RECURSIVE RingIdxLoop(_, _, _, _, _)
RingIdxLoop(ring, kind, idx, in, acc) ==
    IF idx = 20 THEN acc
    ELSE RingIdxLoop(ring, kind, idx + 1, in, RingSample(ring, kind, idx, in, acc))

\* for (const auto& ring : rings) { if (!ring.ellipse->has_value()) continue; ... }
RECURSIVE RingLoop(_, _, _)
RingLoop(i, kind, in) ==
    IF i > Len(ring_configs) THEN NoPoints
    ELSE IF ring_configs[i].name \notin in.rings THEN RingLoop(i + 1, kind, in)
    ELSE Cat(RingIdxLoop(ring_configs[i], kind, 0, in, NoPoints),
             RingLoop(i + 1, kind, in))

RECURSIVE MidIdxLoop(_, _, _, _, _)
MidIdxLoop(mr, kind, idx, in, acc) ==
    IF idx = 20 THEN acc
    ELSE MidIdxLoop(mr, kind, idx + 1, in, MidSample(mr, kind, idx, in, acc))

\* for (const auto& mr : mid_rings) { if (either ellipse is missing) continue; ... }
RECURSIVE MidLoop(_, _, _)
MidLoop(i, kind, in) ==
    IF i > Len(mid_rings) THEN NoPoints
    ELSE IF mid_rings[i].inner \notin in.rings \/ mid_rings[i].outer \notin in.rings
    THEN MidLoop(i + 1, kind, in)
    ELSE Cat(MidIdxLoop(mid_rings[i], kind, 0, in, NoPoints),
             MidLoop(i + 1, kind, in))

\* Ring boundaries, ring midpoints, mid-ring boundaries, mid-ring midpoints,
\* then the centre anchor.
build_control_points(in) ==
    LET pts == Cat(Cat(RingLoop(1, "boundary", in), RingLoop(1, "mid", in)),
                   Cat(MidLoop(1, "boundary", in), MidLoop(1, "mid", in)))
    IN [src |-> Append(pts.src, CenterSrc), dst |-> Append(pts.dst, <<0, 0>>)]

RingInputs ==
    { RingNames,
      RingNames \ {"outer_triple_ellipse"},
      RingNames \ {"bull_ellipse", "bullseye_ellipse"},
      {} }

MissCandidates ==
    { <<"outer_double_ellipse", "boundary", 0>>,
      <<"inner_double_ellipse", "boundary", 7>>,
      <<"inner_triple_ellipse", "mid", 19>>,
      <<"bull_ellipse", "mid", 19>> }

ControlInputs ==
    [rings : RingInputs, seg20_idx : 0..19,
     missed : {m \in SUBSET MissCandidates : Cardinality(m) <= MaxMissed}]

NoControlInput == [rings |-> {}, seg20_idx |-> 0, missed |-> {}]
NotBuilt == NoPoints

InitCtlVars ==
    /\ ctl_in \in ControlInputs
    /\ ctl_out = NotBuilt

IdleCtlVars ==
    /\ ctl_in = NoControlInput
    /\ ctl_out = NotBuilt

BuildControlPoints ==
    /\ ctl_out = NotBuilt
    /\ ctl_out' = build_control_points(ctl_in)
    /\ UNCHANGED ctl_in
    /\ UNCHANGED <<voteVars, pipeVars, initVars, flagVars, segVars, genVars,
                   gameVars, tuneVars>>

(***************************************************************************)
(* Candidate generator of one throw, from the cameras' tip detections      *)
(***************************************************************************)

\* A camera's TipDetection for the throw: none, or one with its reliability flag.
Detections == {"none", "unreliable", "reliable"}

\* Every camera that detected anything counts, reliable or not.
UsableCameras_AnyDetection(dets) == {c \in Cams : dets[c] # "none"}

\* The cameras a throw can use: those whose detection is flagged reliable.
UsableCameras(dets) == {c \in Cams : dets[c] = "reliable"}

ThrowOf(gi) ==
    [usable |-> UsableCameras(gi.dets), radius |-> gi.radius,
     theta_deg |-> gi.theta_deg, disagree |-> gi.disagree]

GenInputs ==
    {gi \in [dets : [Cams -> Detections], radius : 0..MaxRadius,
             theta_deg : ThetaDegs, disagree : BOOLEAN] :
        LET n == Cardinality({c \in Cams : gi.dets[c] = "reliable"}) IN
        /\ gi.disagree => n >= 2
        /\ n = 0 => gi.radius = 0 /\ gi.theta_deg = 0}

NoGenInput ==
    [dets |-> [c \in Cams |-> "none"], radius |-> 0, theta_deg |-> 0,
     disagree |-> FALSE]
NotGenerated == [done |-> FALSE, list |-> <<>>]

InitGenVars ==
    /\ gen_in \in GenInputs
    /\ gen_out = NotGenerated

IdleGenVars ==
    /\ gen_in = NoGenInput
    /\ gen_out = NotGenerated

GenerateCandidates ==
    /\ ~gen_out.done
    /\ gen_out' = [done |-> TRUE, list |-> HhsSelect(ThrowOf(gen_in), "b1")]
    /\ UNCHANGED gen_in
    /\ UNCHANGED <<voteVars, pipeVars, initVars, flagVars, segVars, ctlVars,
                   gameVars, tuneVars>>

(***************************************************************************)
(* Games controller: miss recording, dart correction, leg clear            *)
(***************************************************************************)

MaxPlayers == 2
MaxDarts == 3
MaxLegs == 2
MaxRequests == 5

\* DartThrow: Index, Segment, Multiplier, Zone, Score.
DartThrow(index, segment, multiplier, zone, score) ==
    [Index |-> index, Segment |-> segment, Multiplier |-> multiplier,
     Zone |-> zone, Score |-> score]
NoDart == DartThrow(-1, 0, 0, "", 0)

\* The miss always put at the first index of the turn.
missDart_AtIndexZero(g) == DartThrow(0, 0, 0, "miss", 0)

\* new DartThrow { Index = dartsThisTurn.Count, Segment = 0, Multiplier = 0,
\*                 Zone = "miss", Score = 0, ... }
missDart(g) == DartThrow(Len(g.dartsThisTurn), 0, 0, "miss", 0)

\* The dart a correction request carries for the dart at DartIndex.
newDart(DartIndex) == DartThrow(DartIndex, 20, 1, "single", 20)

\* game.Players.ElementAtOrDefault(game.CurrentPlayerIndex) is null when the
\* index is past the end of the player list.
CurrentPlayerIsNull(g) == g.CurrentPlayerIndex >= g.Players

\* An engine taking a dart into the turn; ApplyManualDart first clears
\* LegWinnerId.
ProcessDart(g, dart) == [g EXCEPT !.dartsThisTurn = Append(@, dart)]
ApplyManualDart(g, dart) ==
    [g EXCEPT !.dartsThisTurn = Append(@, dart), !.LegWinnerId = FALSE]

\* An engine replacing the dart at DartIndex of the turn.
EngineCorrectDart(g, DartIndex, dart) ==
    [g EXCEPT !.dartsThisTurn[DartIndex + 1] = dart]

\* _gameService.NextTurn: the next player's turn starts with no darts.
NextTurn(g) ==
    [g EXCEPT !.CurrentPlayerIndex = IF g.Players = 0 THEN 0 ELSE (@ + 1) % g.Players,
              !.dartsThisTurn = <<>>]

Handled(n, op, calls, sent, dart, response) ==
    [seq |-> n, op |-> op, calls |-> calls, sent |-> sent, dart |-> dart,
     response |-> response]
NothingHandled == Handled(0, "", <<>>, <<>>, NoDart, "")

InitGameVars ==
    /\ game \in {g \in [IsX01Engine : BOOLEAN, Players : 0..MaxPlayers,
                        CurrentPlayerIndex : {0}, dartsThisTurn : {<<>>},
                        CurrentLeg : {1}, AwaitingLegClear : {FALSE},
                        LegWinnerId : {FALSE}] : TRUE}
    /\ sensor_paused = FALSE
    /\ leg_popup = FALSE
    /\ since_leg = "no_leg_started"
    /\ handled = NothingHandled

IdleGameVars ==
    /\ game = [IsX01Engine |-> FALSE, Players |-> 0, CurrentPlayerIndex |-> 0,
               dartsThisTurn |-> <<>>, CurrentLeg |-> 1,
               AwaitingLegClear |-> FALSE, LegWinnerId |-> FALSE]
    /\ sensor_paused = FALSE
    /\ leg_popup = FALSE
    /\ since_leg = "no_leg_started"
    /\ handled = NothingHandled

OtherThanGame ==
    <<voteVars, pipeVars, initVars, flagVars, segVars, ctlVars, genVars, tuneVars>>

\* The detect endpoint when detection found no tip; the sensor sends no
\* detection while it is paused.
DetectNoTip ==
    /\ handled.seq < MaxRequests
    /\ ~sensor_paused
    /\ Len(game.dartsThisTurn) < MaxDarts
    /\ LET dart == missDart(game) IN
        IF game.IsX01Engine
        THEN /\ game' = ProcessDart(game, dart)
             /\ handled' = Handled(handled.seq + 1, "detect", <<"x01.ProcessDart">>,
                                   <<"DartThrown">>, dart, "Ok: Miss recorded")
        ELSE /\ game' = ApplyManualDart(game, dart)
             /\ handled' = Handled(handled.seq + 1, "detect",
                                   <<"gameService.ApplyManualDart">>,
                                   <<"DartThrown">>, dart, "Ok: Miss recorded")
    /\ UNCHANGED <<sensor_paused, leg_popup, since_leg>>
    /\ UNCHANGED OtherThanGame

\* The correction endpoint, from the routing to its response. x01_result is
\* what the X01 engine's CorrectDart answers.
CorrectDart(DartIndex, x01_result) ==
    /\ handled.seq < MaxRequests
    /\ DartIndex < Len(game.dartsThisTurn)
    /\ LET dart == newDart(DartIndex)
           x01 == game.IsX01Engine /\ ~CurrentPlayerIsNull(game)
           correctionResult == IF x01 THEN x01_result ELSE "null"
           calls == IF game.IsX01Engine
                    THEN IF x01 THEN <<"x01.CorrectDart">> ELSE <<>>
                    ELSE <<"gameService.CorrectDart">>
           after == IF game.LegWinnerId THEN <<"LegWon">>
                    ELSE IF correctionResult = "Bust" THEN <<"DartThrown">>
                    ELSE <<>>
       IN
        /\ game' = IF calls = <<>> THEN game ELSE EngineCorrectDart(game, DartIndex, dart)
        /\ handled' = Handled(handled.seq + 1, "correct", calls,
                              <<"DartThrown">> \o after, dart, "Ok: ThrowResult")
    /\ UNCHANGED <<sensor_paused, leg_popup, since_leg>>
    /\ UNCHANGED OtherThanGame

\* GameService.StartNextLeg, run when a dart wins the leg; the board then
\* shows the leg-won popup.
StartNextLeg ==
    /\ handled.seq < MaxRequests
    /\ game.CurrentLeg < MaxLegs
    /\ game' = [game EXCEPT !.CurrentLeg = @ + 1, !.AwaitingLegClear = TRUE,
                            !.LegWinnerId = TRUE]
    /\ leg_popup' = TRUE
    /\ since_leg' = "leg_started"
    /\ handled' = Handled(handled.seq + 1, "leg_won", <<"gameService.StartNextLeg">>,
                          <<"LegWon">>, NoDart, "")
    /\ UNCHANGED sensor_paused
    /\ UNCHANGED OtherThanGame

\* The OK click on the leg-won popup posts acknowledge-leg; the sensor pauses
\* on PauseDetection.
AcknowledgeLeg ==
    /\ handled.seq < MaxRequests
    /\ leg_popup
    /\ leg_popup' = FALSE
    /\ sensor_paused' = TRUE
    /\ handled' = Handled(handled.seq + 1, "acknowledge-leg", <<>>,
                          <<"PauseDetection">>, NoDart,
                          "Ok: Leg acknowledged, waiting for board clear")
    /\ UNCHANGED <<game, since_leg>>
    /\ UNCHANGED OtherThanGame

\* Rebase sent before the sensor is resumed.
LegClearMessages_RebaseFirst == <<"Rebase", "ResumeDetection", "TurnEnded">>

\* SendResumeDetection, SendRebase, SendTurnEnded
LegClearMessages == <<"ResumeDetection", "Rebase", "TurnEnded">>

\* EventBoardClear for the board's game; the sensor resumes on ResumeDetection.
EventBoardClear(IsBusted) ==
    /\ handled.seq < MaxRequests
    /\ IF game.AwaitingLegClear
       THEN /\ game' = [game EXCEPT !.AwaitingLegClear = FALSE]
            /\ sensor_paused' = FALSE
            /\ handled' = Handled(handled.seq + 1, "board_clear", <<>>,
                                  LegClearMessages, NoDart, "")
       ELSE IF ~IsBusted
       THEN /\ game' = NextTurn(game)
            /\ handled' = Handled(handled.seq + 1, "board_clear",
                                  <<"gameService.NextTurn">>, <<"TurnEnded">>,
                                  NoDart, "")
            /\ UNCHANGED sensor_paused
       ELSE /\ handled' = Handled(handled.seq + 1, "board_clear", <<>>, <<>>,
                                  NoDart, "")
            /\ UNCHANGED <<game, sensor_paused>>
    /\ since_leg' = IF since_leg = "no_leg_started" THEN since_leg ELSE "board_cleared"
    /\ UNCHANGED leg_popup
    /\ UNCHANGED OtherThanGame

(***************************************************************************)
(* Weight tuning by coordinate descent (optimize_whrs.py)                  *)
(***************************************************************************)

\* Weights are held in units of 1/1600, which keeps every product with a
\* multiplier (in quarters) exact over the rounds.
MaxCorrect == 2
NumTuned == 2
NumRounds == 2
MinWeight == 16
MaxWeight == 1280

defaults ==
    [wR |-> 480, wI |-> 240, wA |-> 320, wQ |-> 160, wB |-> 160, wD |-> 160,
     wC |-> 80]
weight_names == <<"wR", "wI", "wA", "wQ", "wB", "wD", "wC">>
search_multipliers == <<2, 3, 5, 6, 8>>

\* The weights the search walks over: the first NumTuned of weight_names.
TunedNames == SubSeq(weight_names, 1, NumTuned)

\* A tie counts as an improvement.
Improves_OnTie(correct, best_for_dim) == correct >= best_for_dim

\* if correct > best_for_dim
Improves(correct, best_for_dim) == correct > best_for_dim

\* test_val = base_val * mult
TestVal(base_val, i) == (base_val * search_multipliers[i]) \div 4

\* if test_val < 0.01 or test_val > 0.80: continue
OutOfRange(test_val) == test_val < MinWeight \/ test_val > MaxWeight

NotTuning ==
    [pc |-> "off", round_num |-> 0, w |-> 1, m |-> 1, best_weights |-> defaults,
     best_correct |-> 0, base_val |-> 0, best_for_dim |-> 0,
     best_val_for_dim |-> 0, test_val |-> 0, correct |-> 0]

InitTuneVars == tune = [NotTuning EXCEPT !.pc = "baseline"]
IdleTuneVars == tune = NotTuning

OtherThanTune ==
    <<voteVars, pipeVars, initVars, flagVars, segVars, ctlVars, genVars, gameVars>>

\* correct, total, pct = run_with_weights(defaults); best_correct = correct
Baseline(correct) ==
    /\ tune.pc = "baseline"
    /\ tune' = [tune EXCEPT !.pc = "dim", !.best_weights = defaults,
                            !.best_correct = correct, !.correct = correct]
    /\ UNCHANGED OtherThanTune

\* The head of the loop over weight_names, inside the loop over the rounds.
StartDim ==
    /\ tune.pc = "dim"
    /\ IF tune.round_num = NumRounds
       THEN tune' = [tune EXCEPT !.pc = "done"]
       ELSE LET base == tune.best_weights[TunedNames[tune.w]] IN
            tune' = [tune EXCEPT !.pc = "trial", !.m = 1, !.base_val = base,
                                 !.best_for_dim = tune.best_correct,
                                 !.best_val_for_dim = base]
    /\ UNCHANGED OtherThanTune

\* One pass of the loop over search_multipliers; correct is what the replay
\* with the trial weights scored.
Trial(correct) ==
    /\ tune.pc = "trial"
    /\ tune.m <= Len(search_multipliers)
    /\ LET test_val == TestVal(tune.base_val, tune.m) IN
       IF OutOfRange(test_val)
       THEN tune' = [tune EXCEPT !.m = @ + 1]
       ELSE IF Improves(correct, tune.best_for_dim)
       THEN tune' = [tune EXCEPT !.m = @ + 1, !.test_val = test_val,
                                 !.correct = correct, !.best_for_dim = correct,
                                 !.best_val_for_dim = test_val]
       ELSE tune' = [tune EXCEPT !.m = @ + 1, !.test_val = test_val,
                                 !.correct = correct]
    /\ UNCHANGED OtherThanTune

\* if best_val_for_dim != base_val: best_weights[wname] = best_val_for_dim;
\* best_correct = best_for_dim -- then on to the next weight or round.
UpdateDim ==
    /\ tune.pc = "trial"
    /\ tune.m > Len(search_multipliers)
    /\ LET wname == TunedNames[tune.w]
           last == tune.w = Len(TunedNames)
           moved == [tune EXCEPT !.pc = "dim",
                                 !.w = IF last THEN 1 ELSE @ + 1,
                                 !.round_num = IF last THEN @ + 1 ELSE @]
       IN IF tune.best_val_for_dim # tune.base_val
          THEN tune' = [moved EXCEPT !.best_weights[wname] = tune.best_val_for_dim,
                                     !.best_correct = tune.best_for_dim]
          ELSE tune' = moved
    /\ UNCHANGED OtherThanTune

\* correct, total, pct = run_with_weights(best_weights), after the search.
FinalValidation(correct) ==
    /\ tune.pc = "done"
    /\ tune' = [tune EXCEPT !.pc = "saved", !.correct = correct]
    /\ UNCHANGED OtherThanTune

(***************************************************************************)
(* Specifications                                                          *)
(***************************************************************************)

IdleExtVars ==
    /\ IdleFlagVars /\ IdleSegVars /\ IdleCtlVars /\ IdleGenVars
    /\ IdleGameVars /\ IdleTuneVars

Init == IdleVoteVars /\ InitPipeVars /\ InitInitVars /\ IdleExtVars
Next == \E b \in Boards : HhsStage(b) \/ CbfcStage(b) \/ WhrsStage(b)
Spec == Init /\ [][Next]_vars

InitVote == InitVoteVars /\ IdlePipeVars /\ InitInitVars /\ IdleExtVars
NextVote == ReturnResult
SpecVote == InitVote /\ [][NextVote]_vars

InitInit == IdleVoteVars /\ IdlePipeVars /\ InitInitVars /\ IdleExtVars
NextInit == DdInitParse \/ DdInitBuild \/ DdInitDone \/ DetectStart \/ TriangulateCam
SpecInit == InitInit /\ [][NextInit]_vars

IdleCore == IdleVoteVars /\ IdlePipeVars /\ InitInitVars

InitFlag ==
    /\ IdleVoteVars /\ InitPipeVars /\ InitInitVars /\ InitFlagVars
    /\ IdleSegVars /\ IdleCtlVars /\ IdleGenVars /\ IdleGameVars /\ IdleTuneVars
NextFlag == \E name \in FlagNames, value \in 0..MaxFlagValue : DdSetFlag(name, value)
SpecFlag == InitFlag /\ [][NextFlag]_vars

InitSeg ==
    /\ IdleCore /\ InitSegVars
    /\ IdleFlagVars /\ IdleCtlVars /\ IdleGenVars /\ IdleGameVars /\ IdleTuneVars
NextSeg == ScoreThePoint
SpecSeg == InitSeg /\ [][NextSeg]_vars

InitCtl ==
    /\ IdleCore /\ InitCtlVars
    /\ IdleFlagVars /\ IdleSegVars /\ IdleGenVars /\ IdleGameVars /\ IdleTuneVars
NextCtl == BuildControlPoints
SpecCtl == InitCtl /\ [][NextCtl]_vars

InitGen ==
    /\ IdleCore /\ InitGenVars
    /\ IdleFlagVars /\ IdleSegVars /\ IdleCtlVars /\ IdleGameVars /\ IdleTuneVars
NextGen == GenerateCandidates
SpecGen == InitGen /\ [][NextGen]_vars

InitGame ==
    /\ IdleCore /\ InitGameVars
    /\ IdleFlagVars /\ IdleSegVars /\ IdleCtlVars /\ IdleGenVars /\ IdleTuneVars
NextGame ==
    \/ DetectNoTip
    \/ \E DartIndex \in 0..(MaxDarts - 1), r \in {"Scored", "Bust"} :
            CorrectDart(DartIndex, r)
    \/ StartNextLeg
    \/ AcknowledgeLeg
    \/ \E IsBusted \in BOOLEAN : EventBoardClear(IsBusted)
SpecGame == InitGame /\ [][NextGame]_vars

InitTune ==
    /\ IdleCore /\ InitTuneVars
    /\ IdleFlagVars /\ IdleSegVars /\ IdleCtlVars /\ IdleGenVars /\ IdleGameVars
NextTune ==
    \/ \E correct \in 0..MaxCorrect : Baseline(correct)
    \/ StartDim
    \/ \E correct \in 0..MaxCorrect : Trial(correct)
    \/ UpdateDim
    \/ \E correct \in 0..MaxCorrect : FinalValidation(correct)
SpecTune == InitTune /\ [][NextTune]_vars

(***************************************************************************)
(* Properties                                                              *)
(***************************************************************************)

Returned == result # NoResult
VotesFor(m) == Cardinality({c \in DOMAIN cam_lines : cam_lines[c] = m})

\* C1: with (at most) three cameras voting, whenever at least two cameras' votes
\* carry the same multiplier m in {1,2,3} and m differs from the winning
\* candidate's multiplier, the returned multiplier is m.
C1_MajorityOverride ==
    Returned =>
        \A m \in 1..3 :
            (VotesFor(m) >= 2 /\ m # best.multiplier) => result.multiplier = m

\* Exactly two of three cameras vote 3, the winner has multiplier 1, the result 3.
C1_Witness ==
    /\ Returned
    /\ DOMAIN cam_lines = Cams
    /\ VotesFor(3) = 2
    /\ best.multiplier = 1
    /\ result.multiplier = 3

\* C2: whenever the override changes the multiplier, the score is recomputed from
\* the unchanged segment and the new multiplier: 50 for bull with multiplier 2,
\* 25 for bull otherwise, segment x multiplier for any other segment.
C2_ScoreRecomputed ==
    (Returned /\ result.multiplier # best.multiplier) =>
        /\ result.segment = best.segment
        /\ result.score =
              IF result.segment = 25
              THEN (IF result.multiplier = 2 THEN 50 ELSE 25)
              ELSE result.segment * result.multiplier

\* A bull whose multiplier was overridden to 3 scores 25, and a 20 overridden
\* to a triple is covered by the same run of the block.
C2_Witness ==
    /\ Returned
    /\ result.multiplier # best.multiplier
    /\ best.segment = 25
    /\ result.multiplier = 3
    /\ result.score = 25
    /\ best.score # 25

\* C3: no throw's CBFC stage or scorer is handed a candidate that another
\* throw's hhs_select produced.
C3_RequestOwnedCandidates ==
    \A b \in Boards : ~stage_view[b].foreign

InitReturned == init_pc.at = "idle" /\ init_calls >= 1
Calibrated == DOMAIN g_calibrations

\* C4: after one dd_init, and however many detections follow it,
\* build_tps_transform has run exactly once for every calibrated camera (and for
\* no other); triangulation adds no run.
C4_BuiltOnceAtInit ==
    /\ \A c \in Cams : tps_builds[c] <= init_calls
    /\ (init_calls = 1 /\ g_initialized) =>
          \A c \in Cams : tps_builds[c] = IF c \in Calibrated THEN 1 ELSE 0

\* One dd_init, then a detection that has triangulated every camera.
C4_Witness ==
    /\ init_calls = 1
    /\ g_initialized
    /\ det_pc = <<>>
    /\ \A c \in Cams : det_seen[c].read /\ tps_builds[c] = 1

Usable(c) == c \in Calibrated /\ g_calibrations[c].tps_cache.valid
Malformed(json) == {c \in Cams : json[c] \in {"no_angles", "no_ring"}}

\* C5: a document in which one camera's ring data or angle table is missing
\* loads successfully, with that camera excluded and every other camera usable.
C5_BadCameraExcludedOnly ==
    (InitReturned /\ ParseOk(last_json) /\ Cardinality(Malformed(last_json)) = 1) =>
        /\ init_ret = 0
        /\ g_initialized
        /\ \A c \in Cams : Usable(c) <=> c \notin Malformed(last_json)

\* C6: a detection reads every camera from one and the same model, each with the
\* transform built from that model's calibration.
C6_DetectionSeesWholeModel ==
    \A c \in Cams :
        det_seen[c].read =>
            /\ det_seen[c].tps_gen = det_seen[c].cal_gen
            /\ \A d \in Cams : det_seen[d].read => det_seen[d].cal_gen = det_seen[c].cal_gen

CbfcStep(b) == pc[b] = "cbfc" /\ pc'[b] # pc[b]
Appended == {learn_log'[k] : k \in (Len(learn_log) + 1)..Len(learn_log')}

\* C7: a CBFC stage, in any mode, leaves every candidate whose type is not
\* "single_<camera>" exactly as it was and appends no observation for it.
C7_OnlySingleCamTouched ==
    [][\A b \in Boards :
        CbfcStep(b) =>
            /\ Len(g_hhs_candidates') = Len(g_hhs_candidates)
            /\ \A i \in 1..Len(g_hhs_candidates) :
                  g_hhs_candidates[i].type[1] # "single_" =>
                      /\ g_hhs_candidates'[i] = g_hhs_candidates[i]
                      /\ \A e \in Appended :
                            e.camera # g_hhs_candidates[i].type[2]]_vars

\* A Learn-mode stage has logged the single-camera candidates of a list that
\* also holds pairwise intersections.
C7_Witness ==
    \E b \in Boards :
        /\ pc[b] = "whrs"
        /\ stage_view[b].cbfc_ran = "learn"
        /\ learn_log # <<>>
        /\ \E i \in 1..Len(g_hhs_candidates) :
              g_hhs_candidates[i].type[1] = "pair_"

\* A single-camera candidate has conflicting multi-camera evidence when a
\* pairwise intersection of the same list lies elsewhere.
Conflicting(cand, cands) ==
    \E j \in 1..Len(cands) :
        cands[j].type[1] # "single_" /\ cands[j].coords # cand.coords

\* C8: a Learn-mode stage appends no observation for a single-camera candidate
\* that the throw's multi-camera candidates disagree with.
C8_LearnSkipsConflicted ==
    [][\A b \in Boards :
        (CbfcStep(b) /\ cbfc_enabled /\ cbfc_mode = 1) =>
            \A i \in 1..Len(g_hhs_candidates) :
                (/\ g_hhs_candidates[i].type[1] = "single_"
                 /\ Conflicting(g_hhs_candidates[i], g_hhs_candidates)) =>
                    Observation(g_hhs_candidates[i]) \notin Appended]_vars

\* C9: an Apply-mode stage leaves the coordinate of every single-camera
\* candidate whose bucket has no entry in the bias map as it was, and the throw
\* goes on to scoring.
C9_MissIsNoOp ==
    [][\A b \in Boards :
        (CbfcStep(b) /\ cbfc_enabled /\ cbfc_mode = 2) =>
            /\ pc'[b] = "whrs"
            /\ Len(g_hhs_candidates') = Len(g_hhs_candidates)
            /\ \A i \in 1..Len(g_hhs_candidates) :
                  (/\ g_hhs_candidates[i].type[1] = "single_"
                   /\ BiasKey(g_hhs_candidates[i]) \notin bias_map) =>
                      g_hhs_candidates'[i].coords = g_hhs_candidates[i].coords]_vars

\* An Apply-mode stage with a non-empty bias map has been over a list in which
\* one single-camera candidate missed (coordinate kept) and another hit.
C9_Witness ==
    \E b \in Boards :
        /\ pc[b] = "whrs"
        /\ stage_view[b].cbfc_ran = "apply"
        /\ bias_map # {}
        /\ \E i, j \in 1..Len(g_hhs_candidates) :
              /\ g_hhs_candidates[i].corrected
              /\ BiasKey(g_hhs_candidates[i]) \notin bias_map
              /\ g_hhs_candidates[i].coords
                    = <<g_hhs_candidates[i].radius, g_hhs_candidates[i].theta_deg>>
              /\ g_hhs_candidates[j].corrected
              /\ g_hhs_candidates[j].coords
                    # <<g_hhs_candidates[j].radius, g_hhs_candidates[j].theta_deg>>

\* C10: a throw whose CBFC stage ran in Apply mode is scored only on
\* single-camera candidates that have been through the correction.
C10_ScorerSeesCorrected ==
    \A b \in Boards :
        (pc[b] = "done" /\ stage_view[b].cbfc_ran = "apply") =>
            ~stage_view[b].scored_raw

RecognisedFlagNames == EarlierFlagNames \cup CbfcFlagNames \cup WhrsFlagNames

\* C11: a dd_set_flag call whose name no feature module recognises returns a
\* non-zero result and leaves the configuration of every module (and the learned
\* bias map the throws read) exactly as it was.
C11_UnknownFlagFails ==
    [][(flag_calls' = flag_calls + 1 /\ flag_call'.name \notin RecognisedFlagNames)
            => /\ flag_call'.r # 0
               /\ FlagConfig' = FlagConfig
               /\ bias_map' = bias_map]_vars

\* An unknown name was offered and reported as a failure.
C11_Witness ==
    /\ flag_calls >= 1
    /\ flag_call.name = "NoSuchFlag"
    /\ flag_call.r # 0

\* C12: for a board-space point at clockwise angle t from the board top the
\* segment index is floor(((t + 9) mod 360) / 18) and the segment is the entry
\* at that index of the clockwise order 20,1,18,...,5; the top of the board is
\* 20, and the points of segment index i are exactly those from 9 degrees below
\* to 9 degrees above the centre 18*i.
C12_SegmentResolution ==
    seg_out # NoSeg =>
        LET t == seg_in
            order == <<20,1,18,4,13,6,10,15,2,17,3,19,7,16,8,11,14,9,12,5>>
            idx == ((t + 9) % 360) \div 18
        IN  /\ seg_out.seg_idx = idx
            /\ seg_out.seg = order[idx + 1]
            /\ t = 0 => seg_out.seg = 20
            /\ \A i \in 0..19 :
                   seg_out.seg_idx = i <=> (t - (18 * i - 9)) % 360 < 18

\* A point 9 degrees left of the top, just inside segment 20's wedge.
C12_Witness ==
    /\ seg_out # NoSeg
    /\ seg_in = 351
    /\ seg_out.seg = 20

Built == ctl_out # NotBuilt

\* Number of source points with the given first tag.
SrcCount(a, b) ==
    Cardinality({i \in 1..Len(ctl_out.src) :
                    ctl_out.src[i].a = a /\ ctl_out.src[i].b = b})

\* Positions at which the sample (a, b, kind, idx) appears in the source list.
SrcAt(a, b, kind, idx) ==
    {i \in 1..Len(ctl_out.src) : ctl_out.src[i] = SrcPt(a, b, kind, idx)}

SampleOk(ring, kind, idx) ==
    ring \in ctl_in.rings /\ <<ring, kind, idx>> \notin ctl_in.missed

C14_MissRecorded ==
    [][(handled'.seq = handled.seq + 1 /\ handled'.op = "detect")
            => /\ handled'.dart = DartThrow(Len(game.dartsThisTurn), 0, 0, "miss", 0)
               /\ game'.dartsThisTurn = Append(game.dartsThisTurn, handled'.dart)
               /\ handled'.calls = IF game.IsX01Engine
                                   THEN <<"x01.ProcessDart">>
                                   ELSE <<"gameService.ApplyManualDart">>
               /\ handled'.sent = <<"DartThrown">>
               /\ handled'.response = "Ok: Miss recorded"]_vars

\* A miss recorded as the second dart of the turn of an X01 game.
C14_Witness ==
    /\ handled.op = "detect"
    /\ game.IsX01Engine
    /\ handled.dart.Index = 1
    /\ Len(game.dartsThisTurn) = 2
    /\ handled.response = "Ok: Miss recorded"

Reliable == {c \in Cams : gen_in.dets[c] = "reliable"}
AllPairs == {PairSeq[i] : i \in 1..Len(PairSeq)}
GenCount(type) ==
    Cardinality({i \in 1..Len(gen_out.list) : gen_out.list[i].type = type})

\* C15: the generated candidate list holds every pairwise intersection of the
\* throw's usable cameras and also one single-camera candidate for every usable
\* camera, whether or not pairwise candidates exist.
C15_FullCandidateSet ==
    gen_out.done =>
        /\ \A p \in AllPairs :
               (p[1] \in Reliable /\ p[2] \in Reliable)
                   => GenCount(<<"pair_", PairName(p)>>) = 1
        /\ \A c \in Reliable : GenCount(<<"single_", c>>) = 1

\* Three usable cameras: three pairs and three single-camera candidates.
C15_Witness ==
    /\ gen_out.done
    /\ Reliable = Cams
    /\ Len(gen_out.list) = 6
    /\ GenCount(<<"single_", "cam2">>) = 1

\* C16: a camera whose detection is flagged unreliable contributes nothing: no
\* single-camera candidate is tagged with it and no pairwise candidate has it in
\* its pair.
C16_UnreliableContributesNothing ==
    gen_out.done =>
        \A c \in Cams :
            gen_in.dets[c] = "unreliable" =>
                /\ GenCount(<<"single_", c>>) = 0
                /\ \A p \in AllPairs :
                       (p[1] = c \/ p[2] = c) => GenCount(<<"pair_", PairName(p)>>) = 0

\* cam0 unreliable, the other two reliable: one pair and two singles, none of cam0.
C16_Witness ==
    /\ gen_out.done
    /\ gen_in.dets = [c \in Cams |-> IF c = "cam0" THEN "unreliable" ELSE "reliable"]
    /\ Len(gen_out.list) = 3
    /\ GenCount(<<"pair_", "cam1_cam2">>) = 1

Step(op) == handled'.seq = handled.seq + 1 /\ handled'.op = op

\* C17: starting the next leg sets AwaitingLegClear; a board clear that finds it
\* set does not advance the turn (no NextTurn; player and darts stay) but clears
\* the flag and sends resume-detection, rebase, turn-ended in that order; a
\* board clear that finds it unset takes the normal path (at most turn-ended is
\* sent, nothing is resumed); so AwaitingLegClear is true only between a leg
\* start and the next board clear.
C17_LegClear ==
    /\ [](game.AwaitingLegClear => since_leg = "leg_started")
    /\ [][/\ Step("leg_won") => game'.AwaitingLegClear
          /\ (Step("board_clear") /\ game.AwaitingLegClear)
                => /\ ~game'.AwaitingLegClear
                   /\ handled'.calls = <<>>
                   /\ game'.CurrentPlayerIndex = game.CurrentPlayerIndex
                   /\ game'.dartsThisTurn = game.dartsThisTurn
                   /\ handled'.sent = <<"ResumeDetection", "Rebase", "TurnEnded">>
          /\ (Step("board_clear") /\ ~game.AwaitingLegClear)
                => /\ ~game'.AwaitingLegClear
                   /\ \/ handled'.calls = <<"gameService.NextTurn">>
                            /\ handled'.sent = <<"TurnEnded">>
                      \/ handled'.calls = <<>> /\ handled'.sent = <<>>]_vars

\* The board was cleared after a leg start: the flag is down again, the three
\* messages went out and the turn did not advance.
C17_Witness ==
    /\ handled.op = "board_clear"
    /\ since_leg = "board_cleared"
    /\ handled.sent = <<"ResumeDetection", "Rebase", "TurnEnded">>
    /\ ~game.AwaitingLegClear
    /\ game.CurrentLeg = 2

\* C18: a board clear that arrives while detection is paused sends
\* resume-detection and leaves the sensor running, in every order of the
\* acknowledge-leg request and the board-clear events after a leg win.
C18_ClearAfterPauseResumes ==
    [][(Step("board_clear") /\ sensor_paused)
            => /\ \E i \in 1..Len(handled'.sent) : handled'.sent[i] = "ResumeDetection"
               /\ ~sensor_paused']_vars

\* C20: a correction request runs exactly one CorrectDart -- the X01 engine's
\* for an X01-engine game, the game service's otherwise -- so that the dart at
\* the corrected index is the dart that is then broadcast.
C20_ExactlyOneEngine ==
    [][Step("correct")
            => /\ handled'.calls = IF game.IsX01Engine
                                   THEN <<"x01.CorrectDart">>
                                   ELSE <<"gameService.CorrectDart">>
               /\ Head(handled'.sent) = "DartThrown"
               /\ game'.dartsThisTurn[handled'.dart.Index + 1] = handled'.dart]_vars

\* C19: across the search best_correct never decreases; a weight of
\* best_weights changes only to the dimension's best trial value, and only when
\* that trial's replay scored strictly more than best_correct; within a
\* dimension the best trial value changes only to a trial that scored strictly
\* more than the best so far, so a tie keeps the current value.
C19_MonotoneTuning ==
    [][/\ tune'.best_correct >= tune.best_correct
       /\ \A i \in 1..Len(TunedNames) :
            LET n == TunedNames[i] IN
            tune'.best_weights[n] # tune.best_weights[n]
                => /\ tune'.best_weights[n] = tune.best_val_for_dim
                   /\ tune'.best_correct = tune.best_for_dim
                   /\ tune'.best_correct > tune.best_correct
       /\ (tune.pc = "trial" /\ tune'.pc = "trial"
                /\ tune'.best_val_for_dim # tune.best_val_for_dim)
            => /\ tune'.correct > tune.best_for_dim
               /\ tune'.best_for_dim = tune'.correct
               /\ tune'.best_val_for_dim = tune'.test_val]_vars

\* The search ended with wR doubled after a strictly better replay, while a
\* tying trial left wI at its default.
C19_Witness ==
    /\ tune.pc = "done"
    /\ tune.best_weights["wR"] = 2 * defaults["wR"]
    /\ tune.best_weights["wI"] = defaults["wI"]
    /\ tune.best_correct = 1

FlagStep == flag_calls' = flag_calls + 1

\* C21: the CBFC module is offered a flag name before the WHRS module; a name
\* CBFC accepts returns 0 to the caller, is never offered to WHRS and leaves the
\* WHRS configuration unchanged; a name CBFC rejects is passed on, and the
\* caller's result and the WHRS configuration are exactly what the WHRS
\* module's setter gives.
C21_FirstMatchDispatch ==
    [][(FlagStep /\ flag_call'.name \notin EarlierFlagNames)
            => LET name == flag_call'.name
                   value == flag_call'.value
                   c == set_cbfc_flag(FlagConfig, name, value)
                   w == set_whrs_flag(FlagConfig, name, value)
               IN  IF c.r = 0
                   THEN /\ flag_call'.r = 0
                        /\ flag_call'.asked = <<"hhs", "cbfc">>
                        /\ whrs_cfg' = whrs_cfg
                   ELSE /\ flag_call'.asked = <<"hhs", "cbfc", "whrs">>
                        /\ flag_call'.r = w.r
                        /\ whrs_cfg' = w.cfg.whrs
                        /\ cbfc_enabled' = cbfc_enabled
                        /\ cbfc_mode' = cbfc_mode]_vars

\* A CBFC flag was accepted without WHRS being asked, after an earlier call
\* had gone through CBFC to WHRS.
C21_Witness ==
    /\ flag_calls = 2
    /\ flag_call.name = "CBFC_Mode"
    /\ flag_call.r = 0
    /\ flag_call.asked = <<"hhs", "cbfc">>
    /\ whrs_cfg.wR = 2
    /\ cbfc_mode = 1

\* C22: for every boundary index idx and segment-20 index s in 0..19,
\* board_idx lies in 0..19 and is a bijection of idx; a boundary's board target
\* is at clockwise angle 18*board_idx - 9 and a midpoint's at 18*board_idx; the
\* score mapper resolves the midpoint target to the entry at position board_idx
\* of the clockwise order, which is segment 20 when idx = s.
C22_BoundariesAgreeWithMapper ==
    Built =>
        LET s == ctl_in.seg20_idx
            order == <<20,1,18,4,13,6,10,15,2,17,3,19,7,16,8,11,14,9,12,5>>
        IN  /\ \A idx \in 0..19 : board_idx(idx, s) \in 0..19
            /\ \A i, j \in 0..19 : board_idx(i, s) = board_idx(j, s) => i = j
            /\ \A i \in 1..Len(ctl_out.src) :
                 LET p == ctl_out.src[i]
                     b == (p.idx - s + 20) % 20
                     target == ctl_out.dst[i][2]
                 IN  /\ p.kind = "boundary" => target = 18 * b - 9
                     /\ p.kind = "mid" =>
                            /\ target = 18 * b
                            /\ ScorePoint(target).seg_idx = b
                            /\ ScorePoint(target).seg = order[b + 1]
                            /\ p.idx = s => ScorePoint(target).seg = 20

\* Segment-20 index 7: the midpoint after boundary 3 (below the index, so the
\* difference is negative) is the centre of wedge 16, and the one after
\* boundary 7 is the top of the board.
C22_Witness ==
    /\ Built
    /\ ctl_in.seg20_idx = 7
    /\ \E i, j \in 1..Len(ctl_out.src) :
        /\ ctl_out.src[i] = SrcPt("outer_double_ellipse", "", "mid", 3)
        /\ ctl_out.dst[i] = <<17000, 288>>
        /\ ctl_out.src[j] = SrcPt("outer_double_ellipse", "", "mid", 7)
        /\ ctl_out.dst[j] = <<17000, 0>>

\* C23: a CBFC stage that finds CBFC disabled, or a mode other than Learn (1)
\* and Apply (2), neither logs nor modifies anything; in Learn mode it appends
\* one observation per single-camera candidate and leaves the list exactly as
\* the generator produced it; candidates are modified only in Apply mode, which
\* logs nothing; no stage both logs and modifies.
C23_ModeDeterminesEffect ==
    [][\A b \in Boards :
        CbfcStep(b) =>
            LET logs == learn_log' # learn_log
                mods == g_hhs_candidates' # g_hhs_candidates
                singles == {i \in 1..Len(g_hhs_candidates) :
                                g_hhs_candidates[i].type[1] = "single_"}
            IN  /\ (~cbfc_enabled \/ cbfc_mode \notin {1, 2}) => ~logs /\ ~mods
                /\ (cbfc_enabled /\ cbfc_mode = 1) =>
                      /\ ~mods
                      /\ Len(learn_log') = Len(learn_log) + Cardinality(singles)
                      /\ SubSeq(learn_log', 1, Len(learn_log)) = learn_log
                      /\ g_hhs_candidates' # <<>> =>
                            LET o == g_hhs_candidates'[1].owner IN
                            g_hhs_candidates' = HhsSelect(throw_in[o], o)
                /\ (cbfc_enabled /\ cbfc_mode = 2) => ~logs
                /\ mods => (cbfc_enabled /\ cbfc_mode = 2)
                /\ ~(logs /\ mods)]_vars

\* A Learn-mode stage went over a three-camera throw: three observations
\* logged, all six candidates still uncorrected.
C23_Witness ==
    \E b \in Boards :
        /\ pc[b] = "whrs"
        /\ cbfc_enabled /\ cbfc_mode = 1
        /\ stage_view[b].cbfc_ran = "learn"
        /\ Len(learn_log) = 3
        /\ Len(g_hhs_candidates) = 6
        /\ \A i \in 1..Len(g_hhs_candidates) : ~g_hhs_candidates[i].corrected


\* The cameras' tally as the claims read it: no multiplier in 1..3 has two
\* votes, or m is a most-voted multiplier with at least two votes.
NoMajority == \A m \in 1..3 : VotesFor(m) < 2
MostVoted(m) ==
    /\ m \in 1..3
    /\ VotesFor(m) >= 2
    /\ \A k \in 1..3 : VotesFor(k) <= VotesFor(m)
KeepsWinner ==
    /\ result.multiplier = best.multiplier
    /\ result.score = best.score

\* C24: if no multiplier in {1,2,3} is voted by at least two cameras, or the
\* most-voted multiplier is the winning candidate's own, the returned
\* multiplier and score are exactly the winning candidate's; the score is not
\* recomputed.
C24_NoOverrideKeepsWinner ==
    (Returned /\ (NoMajority \/ MostVoted(best.multiplier))) => KeepsWinner

\* Two cameras agree with the winner's multiplier, and the winner's score is
\* not what a recomputation would give, yet it is returned as it was.
C24_Witness ==
    /\ Returned
    /\ MostVoted(best.multiplier)
    /\ best.score # RecalcScore(best.segment, best.multiplier)
    /\ result.score = best.score

\* C25: the voting block changes nothing but multiplier and score: segment,
\* method tag, confidence, board coordinate, total error and the per-camera
\* vote echo are the winning candidate's and the cameras' own votes, whether
\* or not the override fires.
C25_VoteFrame ==
    Returned =>
        /\ result.segment = best.segment
        /\ result.method = method
        /\ result.confidence = confidence
        /\ result.coords = best.coords
        /\ result.total_error = best.total_error
        /\ result.per_camera = cam_lines

\* The override fired with a miss vote among three cameras, and the echo
\* still carries all three votes.
C25_Witness ==
    /\ Returned
    /\ result.multiplier # best.multiplier
    /\ DOMAIN cam_lines = Cams
    /\ VotesFor(0) = 1
    /\ result.per_camera = cam_lines
    /\ result.coords = <<1, 2>>
    /\ result.total_error = 3
    /\ result.method = "single_cam0"

\* C26: only votes with multiplier 1, 2 or 3 are tallied. With three cameras,
\* two or more votes outside 1..3 (0 for a miss, or anything above 3) leave
\* the winning candidate's multiplier and score as they were, and whenever the
\* multiplier or score is changed the returned multiplier is in 1..3 and was
\* voted by at least two cameras.
C26_OnlyInRangeTallied ==
    Returned =>
        /\ (Cardinality({c \in DOMAIN cam_lines : cam_lines[c] \notin 1..3}) >= 2)
               => KeepsWinner
        /\ ~KeepsWinner =>
               /\ result.multiplier \in 1..3
               /\ VotesFor(result.multiplier) >= 2

\* Two cameras vote a miss, the third votes a double, the winner is a triple
\* and stays one.
C26_Witness ==
    /\ Returned
    /\ DOMAIN cam_lines = Cams
    /\ VotesFor(0) = 2
    /\ VotesFor(2) = 1
    /\ best.multiplier = 3
    /\ result.multiplier = 3
    /\ result.score = best.score


\* A (segment, multiplier, score) triple a real board can produce.
BoardTriple(r) ==
    \/ r.segment = 25 /\ r.multiplier = 1 /\ r.score = 25
    \/ r.segment = 25 /\ r.multiplier = 2 /\ r.score = 50
    \/ /\ r.segment \in 1..20
       /\ r.multiplier \in 1..3
       /\ r.score = r.segment * r.multiplier
    \/ r.segment = 0 /\ r.multiplier = 0 /\ r.score = 0

\* C27: provided the winning candidate's (segment, multiplier, score) is a
\* combination a real board can produce, the returned triple is one too, for
\* every combination of camera votes.
C27_ResultConsistent ==
    (Returned /\ BoardTriple(best)) => BoardTriple(result)


\* A parsed camera whose tps_cache was not built from its present calibration.
Unbuilt(c) == g_calibrations[c].tps_cache.gen # g_calibrations[c].gen

\* Within one dd_init: the flag is set only when no parsed camera is unbuilt,
\* and a failed parse returns -1 with the flag and every transform untouched.
DdInitOrdering ==
    [][/\ (~g_initialized /\ g_initialized') => \A c \in Calibrated : ~Unbuilt(c)
       /\ (init_calls' # init_calls /\ ~ParseOk(last_json')) =>
              /\ init_ret' = -1
              /\ UNCHANGED <<g_initialized, g_calibrations, tps_builds>>]_vars

\* C28: dd_init marks the library initialised only after the calibration data
\* has parsed and every parsed camera's transform cache has been built, so in
\* no reachable state is the library initialised while a parsed camera's
\* transform cache is still unbuilt.
C28_InitialisedMeansBuilt ==
    g_initialized => \A c \in Calibrated : ~Unbuilt(c)

====
